---- MODULE Spec2Model ----
(***************************************************************************)
(* A model of the dBase III reader of this repository: NewReader (header   *)
(* and field-descriptor parsing), FieldName/FieldNames, and Reader.Read    *)
(* (random-access record decoding under the Reader's mutex).               *)
(*                                                                         *)
(* The repository holds three versions of the same file; the variable impl *)
(* says which one runs:                                                    *)
(*   "dbf"  src/dbf.go                                                     *)
(*   "p1"   src/unnamed/part_001  (the later revision)                     *)
(*   "p0"   src/unnamed/part_000  (the first draft: NewReader only, its    *)
(*          Read is an empty stub and is not modelled)                     *)
(*                                                                         *)
(* Bytes are the integers 0..255, strings are sequences of bytes.          *)
(***************************************************************************)
EXTENDS Integers, Sequences, FiniteSets

VARIABLES
    impl,     \* which version of the source runs
    src,      \* the byte source's content (never written by the program)
    pos,      \* the byte source's cursor, shared by every operation
    nprocs,   \* number of goroutines calling Read
    npc,      \* NewReader: "call", "loop", "done", "crashed"
    h,        \* NewReader's local h (the decoded header)
    offset,   \* NewReader's local offset (uint16)
    nfields,  \* NewReader's local fields: the descriptors decoded from the source
    nzeros,   \* ... and the number of zero Fields appended after them
    rdr,      \* the *Reader NewReader returned (NilReader for nil)
    nerr,     \* the error NewReader returned
    nio,      \* history: the first I/O failure NewReader met
    eohOff,   \* history: cursor position of the byte compared with 0x0D
    mark,     \* history: (offset, cursor) at the loop test of the first iteration
              \* whose read found the source exhausted (<<-1, -1>> before)
    recur,    \* history: the loop test is evaluated again in the state held in mark
    pos0,     \* history: cursor position when NewReader returned
    mutex,    \* the Reader's sync.Mutex: 0 when free, else the holder
    rd,       \* per goroutine: its Read call's position, locals, result and history
    names     \* the result of the last FieldNames call ([set |-> FALSE] before it)

vars == <<impl, src, pos, nprocs, npc, h, offset, nfields, nzeros, rdr, nerr, nio,
          eohOff, mark, recur, pos0, mutex, rd, names>>

----------------------------------------------------------------------------
(* Bounds of the exploration.                                              *)

\* goroutines calling Read concurrently in SpecConc
NumProcs == 2
\* largest record index passed to Read (part_001 also gets -1)
MaxIndex == 2
\* most field descriptors in a generated header
MaxDescs == 2

----------------------------------------------------------------------------
(* Integer widths.                                                         *)

U16(n) == n % 65536

Min(a, b) == IF a < b THEN a ELSE b

Max(a, b) == IF a > b THEN a ELSE b

RECURSIVE Zeros(_)
Zeros(n) == IF n <= 0 THEN <<>> ELSE <<0>> \o Zeros(n - 1)

----------------------------------------------------------------------------
(* Errors.  e is the message (format string), a and b its integer          *)
(* arguments, s its string argument.                                       *)

Err(e, a, b, s) == [e |-> e, a |-> a, b |-> b, s |-> s]

NoErr == Err("nil", 0, 0, <<>>)

ErrEOF == Err("EOF", 0, 0, <<>>)

ErrUnexpectedEOF == Err("unexpected EOF", 0, 0, <<>>)

ErrSeek == Err("negative position", 0, 0, <<>>)

ErrVersion(v) == Err("unexepected file version: %d", v, 0, <<>>)

ErrFieldType(t) == Err("Sorry, dbf library doesn't recognize field type '%c'", t, 0, <<>>)

ErrEoh(hl, b) == Err("Header was supposed to be %d bytes long, but found byte %#x", hl, b, <<>>)

ErrDeleted(i) == Err("record %d is deleted", i, 0, <<>>)

ErrFlag(i, b) == Err("record %d contained an unexpected value in the deleted flag: %h", i, b, <<>>)

ErrAtoi(s) == Err("strconv.Atoi: parsing %q: invalid syntax", 0, 0, s)

ErrParseFloat(s) == Err("strconv.ParseFloat: parsing %q: invalid syntax", 0, 0, s)

\* the errors that come from the byte source itself
IsIOErr(e) == e.e \in {"EOF", "unexpected EOF", "negative position"}

\* the errors the reader makes up about the file's layout
IsFormatErr(e) == e # NoErr /\ ~IsIOErr(e) /\ e.e # ErrDeleted(0).e

----------------------------------------------------------------------------
(* The byte source: an io.ReadSeeker over src with cursor pos.             *)

\* r.Seek(off, 0): a negative offset fails and leaves the cursor alone
SeekErr(off) == IF off < 0 THEN ErrSeek ELSE NoErr

SeekPos(p, off) == IF off < 0 THEN p ELSE off

\* io.ReadFull of n bytes at cursor p (binary.Read reads this way)
ReadFull(p, n) ==
    LET avail == Max(0, Len(src) - p)
    IN  IF n = 0 THEN [err |-> NoErr, bytes |-> <<>>, pos |-> p]
        ELSE IF avail = 0 THEN [err |-> ErrEOF, bytes |-> <<>>, pos |-> p]
        ELSE IF avail < n
             THEN [err |-> ErrUnexpectedEOF, bytes |-> <<>>, pos |-> p + avail]
        ELSE [err |-> NoErr, bytes |-> SubSeq(src, p + 1, p + n), pos |-> p + n]

\* size of the buffer bufio.NewReader fills in one read
BufSize == 4096

\* bufio.NewReader(r).ReadByte(): fills the buffer, returns its first byte
BufReadByte(p) ==
    LET avail == Max(0, Len(src) - p)
    IN  IF avail = 0 THEN [err |-> ErrEOF, byte |-> 0, pos |-> p]
        ELSE [err |-> NoErr, byte |-> src[p + 1], pos |-> p + Min(BufSize, avail)]

----------------------------------------------------------------------------
(* binary.Read with binary.LittleEndian into the header and Field structs. *)

LE16(b, i) == b[i] + 256 * b[i + 1]

LE32(b, i) == b[i] + 256 * b[i + 1] + 65536 * b[i + 2] + 16777216 * b[i + 3]

ZeroHeader ==
    [Version |-> 0, Year |-> 0, Month |-> 0, Day |-> 0, Nrec |-> 0,
     Headerlen |-> 0, Recordlen |-> 0]

DecodeHeader(b) ==
    [Version |-> b[1], Year |-> b[2], Month |-> b[3], Day |-> b[4],
     Nrec |-> LE32(b, 5), Headerlen |-> LE16(b, 9), Recordlen |-> LE16(b, 11)]

\* bytes binary.Read takes for the header struct: dbf.go's struct carries the
\* 20 reserved bytes, the other two versions stop after Recordlen
HeaderSize == IF impl = "dbf" THEN 32 ELSE 12

ZeroField ==
    [Name |-> Zeros(11), Type |-> 0, Offset |-> 0, Len |-> 0, DecimalPlaces |-> 0]

DecodeField(b) ==
    [Name |-> SubSeq(b, 1, 11), Type |-> b[12], Offset |-> LE32(b, 13),
     Len |-> b[17], DecimalPlaces |-> b[18]]

\* Field.validate: nil for 'C', 'N', 'F'; part_000's always passes
validate(f) ==
    IF impl = "p0" \/ f.Type \in {67, 78, 70} THEN NoErr ELSE ErrFieldType(f.Type)

----------------------------------------------------------------------------
(* NewReader.                                                              *)

NilReader ==
    [isNil |-> TRUE, year |-> 0, month |-> 0, day |-> 0, Length |-> 0,
     fields |-> <<>>, headerlen |-> 0, recordlen |-> 0]

\* the Reader literal NewReader returns (part_000's has no headerlen, recordlen)
MkReader(hd, fs) ==
    [isNil |-> FALSE, year |-> 1900 + hd.Year, month |-> hd.Month, day |-> hd.Day,
     Length |-> hd.Nrec, fields |-> fs,
     headerlen |-> IF impl = "p0" THEN 0 ELSE hd.Headerlen,
     recordlen |-> IF impl = "p0" THEN 0 ELSE hd.Recordlen]

\* the error returned on a version tag other than 0x03: dbf.go and part_000
\* print the message and return err, which is nil once the header was read
VersionErr(v, readErr) == IF impl = "p1" THEN ErrVersion(v) ELSE readErr

\* a loop test that also runs the iteration at offset = Headerlen-1
LoopTestInclusive(off, hd) == off <= U16(hd.Headerlen - 1)

\* the loop test: offset < h.Headerlen-1, in uint16
LoopTest(off, hd) == off < U16(hd.Headerlen - 1)

\* the loop increment: offset += 32, in uint16
LoopStep(off) == U16(off + 32)

NoMark == <<-1, -1>>

\* the fields slice: the decoded descriptors, then the zero Fields
FieldList == nfields \o [i \in 1..nzeros |-> ZeroField]

\* return nil, err
NewReaderReturn(e, p) ==
    /\ npc' = "done"
    /\ rdr' = NilReader
    /\ nerr' = e
    /\ pos' = p
    /\ pos0' = p

\* Seek(0, 0); binary.Read(&h); the version test; Seek(0x20, 0)
NewReaderHeader ==
    /\ npc = "call"
    /\ LET p  == IF impl = "p0" THEN pos ELSE 0
           r  == ReadFull(p, HeaderSize)
           hd == IF r.err = NoErr THEN DecodeHeader(r.bytes) ELSE ZeroHeader
       IN  /\ h' = hd
           /\ nio' = r.err
           /\ IF r.err # NoErr \/ hd.Version # 3
              THEN /\ NewReaderReturn(IF r.err # NoErr THEN r.err
                                      ELSE VersionErr(hd.Version, r.err), r.pos)
                   /\ UNCHANGED offset
              ELSE /\ npc' = "loop"
                   /\ offset' = 32
                   /\ pos' = IF impl = "dbf" THEN r.pos ELSE 32
                   /\ UNCHANGED <<rdr, nerr, pos0>>
    /\ UNCHANGED <<impl, src, nprocs, nfields, nzeros, eohOff, mark, recur, mutex, rd, names>>

\* one iteration of the descriptor loop: binary.Read(&f) with its error
\* dropped (f stays the zero Field when the read fails), validate, append.
\* The exploration stops once the loop is back in a state it was in before.
NewReaderField ==
    /\ npc = "loop"
    /\ LoopTest(offset, h)
    /\ ~recur
    /\ LET r == ReadFull(pos, 32)
           f == IF r.err = NoErr THEN DecodeField(r.bytes) ELSE ZeroField
           v == validate(f)
       IN  /\ nio' = IF nio = NoErr THEN r.err ELSE nio
           /\ mark' = IF mark = NoMark /\ r.pos = pos THEN <<offset, pos>> ELSE mark
           /\ IF v # NoErr
              THEN /\ NewReaderReturn(v, r.pos)
                   /\ UNCHANGED <<nfields, nzeros, offset, recur>>
              ELSE /\ nfields' = IF r.err = NoErr THEN Append(nfields, f) ELSE nfields
                   /\ nzeros' = IF r.err = NoErr THEN nzeros ELSE nzeros + 1
                   /\ offset' = LoopStep(offset)
                   /\ pos' = r.pos
                   /\ recur' = (<<LoopStep(offset), r.pos>> = mark)
                   /\ UNCHANGED <<npc, rdr, nerr, pos0>>
    /\ UNCHANGED <<impl, src, nprocs, h, eohOff, mutex, rd, names>>

\* after the loop: bufio.NewReader(r).ReadByte() and the 0x0D test.
\* part_000 panics or calls log.Fatalf where the others return an error.
NewReaderEoh ==
    /\ npc = "loop"
    /\ ~LoopTest(offset, h)
    /\ LET r == BufReadByte(pos)
           e == IF r.err # NoErr THEN r.err
                ELSE IF r.byte # 13 THEN ErrEoh(h.Headerlen, r.byte)
                ELSE NoErr
       IN  /\ nio' = IF nio = NoErr THEN r.err ELSE nio
           /\ eohOff' = IF r.err = NoErr THEN pos ELSE -1
           /\ pos' = r.pos
           /\ pos0' = r.pos
           /\ IF e # NoErr /\ impl = "p0"
              THEN /\ npc' = "crashed"
                   /\ UNCHANGED <<rdr, nerr>>
              ELSE /\ npc' = "done"
                   /\ nerr' = e
                   /\ rdr' = IF e # NoErr THEN NilReader ELSE MkReader(h, FieldList)
    /\ UNCHANGED <<impl, src, nprocs, h, offset, nfields, nzeros, mark, recur, mutex, rd, names>>

----------------------------------------------------------------------------
(* FieldName and FieldNames.                                               *)

RECURSIVE TrimRightNul(_)
\* strings.TrimRight(s, "\x00")
TrimRightNul(s) ==
    IF s # <<>> /\ s[Len(s)] = 0 THEN TrimRightNul(SubSeq(s, 1, Len(s) - 1)) ELSE s

\* string(val) for one rune of `range string(bytes)`: a byte below 0x80 is
\* itself; 0xFF, the only other byte the generated names hold, is never
\* valid UTF-8 and decodes to U+FFFD, which encodes as EF BF BD
RuneString(b) == IF b < 128 THEN <<b>> ELSE <<239, 191, 189>>

RECURSIVE UntilNul(_)
\* part_001's loop: stop at the first rune 0, append string(val) otherwise
UntilNul(s) ==
    IF s = <<>> \/ Head(s) = 0 THEN <<>> ELSE RuneString(Head(s)) \o UntilNul(Tail(s))

\* part_000 has no FieldName: its FieldNames takes string(f.Name[0:11])
FieldNameOf(f) ==
    IF impl = "dbf" THEN TrimRightNul(f.Name)
    ELSE IF impl = "p1" THEN UntilNul(f.Name)
    ELSE f.Name

FieldName(i) == FieldNameOf(rdr.fields[i])

FieldNamesOf(fs) == [i \in 1..Len(fs) |-> FieldNameOf(fs[i])]

NoNames == [set |-> FALSE, v |-> <<>>]

FieldNames ==
    /\ npc = "done"
    /\ ~rdr.isNil
    /\ names = NoNames
    /\ names' = [set |-> TRUE, v |-> FieldNamesOf(rdr.fields)]
    /\ UNCHANGED <<impl, src, pos, nprocs, npc, h, offset, nfields, nzeros, rdr, nerr,
                   nio, eohOff, mark, recur, pos0, mutex, rd>>

----------------------------------------------------------------------------
(* Field decoding: strings.TrimSpace, strconv.Atoi, strconv.ParseFloat.    *)
(* Record bytes are drawn from ' ', '*', '-', '.', '1', 'X', 'a'; on       *)
(* strings over these the definitions below are the library's behaviour    *)
(* (no exponent, hex, "inf", "nan" or underscore can be spelled).          *)

IsSpace(b) == b \in {9, 10, 11, 12, 13, 32}

IsDigit(b) == b \in 48..57

RECURSIVE TrimLeftSpace(_)
TrimLeftSpace(s) ==
    IF s # <<>> /\ IsSpace(Head(s)) THEN TrimLeftSpace(Tail(s)) ELSE s

RECURSIVE TrimRightSpace(_)
TrimRightSpace(s) ==
    IF s # <<>> /\ IsSpace(s[Len(s)])
    THEN TrimRightSpace(SubSeq(s, 1, Len(s) - 1)) ELSE s

TrimSpace(s) == TrimRightSpace(TrimLeftSpace(s))

AllDigits(s) == \A i \in 1..Len(s) : IsDigit(s[i])

RECURSIVE DigitsValue(_)
DigitsValue(s) ==
    IF s = <<>> THEN 0 ELSE 10 * DigitsValue(SubSeq(s, 1, Len(s) - 1)) + (s[Len(s)] - 48)

\* an optional leading '+' or '-'
Unsigned(s) == IF s # <<>> /\ s[1] \in {43, 45} THEN Tail(s) ELSE s

Sign(s) == IF s # <<>> /\ s[1] = 45 THEN -1 ELSE 1

\* strconv.Atoi: [+-]?[0-9]+
Atoi(s) ==
    LET u == Unsigned(s)
    IN  IF u = <<>> \/ ~AllDigits(u)
        THEN [err |-> ErrAtoi(s), v |-> <<0>>]
        ELSE [err |-> NoErr, v |-> <<Sign(s) * DigitsValue(u)>>]

\* strconv.ParseFloat(s, 64) on decimal text: [+-]? digits and at most one
\* '.', with a digit on one side of it.  The value is <<mantissa, number of
\* fraction digits>>.
ParseFloat(s) ==
    LET u    == Unsigned(s)
        dots == {i \in 1..Len(u) : u[i] = 46}
        dot  == IF dots = {} THEN Len(u) + 1 ELSE CHOOSE i \in dots : TRUE
        ip   == SubSeq(u, 1, dot - 1)
        fp   == SubSeq(u, dot + 1, Len(u))
    IN  IF Cardinality(dots) > 1 \/ ~AllDigits(ip) \/ ~AllDigits(fp) \/ ip \o fp = <<>>
        THEN [err |-> ErrParseFloat(s), v |-> <<0, 0>>]
        ELSE [err |-> NoErr, v |-> <<Sign(s) * DigitsValue(ip \o fp), Len(fp)>>]

\* a decoder that stores zero for text that is no number and goes on
DecodeValueLenient(f, buf) ==
    LET fieldVal == TrimSpace(buf)
    IN  IF f.Type = 70
        THEN [err |-> NoErr, val |-> [t |-> "float64", v |-> ParseFloat(fieldVal).v]]
        ELSE IF f.Type = 78
        THEN [err |-> NoErr, val |-> [t |-> "int", v |-> Atoi(fieldVal).v]]
        ELSE [err |-> NoErr, val |-> [t |-> "string", v |-> fieldVal]]

\* the switch on f.Type in Read: the value stored under the field's name
\* and the error left in err
DecodeValue(f, buf) ==
    LET fieldVal == TrimSpace(buf)
    IN  IF f.Type = 70
        THEN LET r == ParseFloat(fieldVal) IN [err |-> r.err, val |-> [t |-> "float64", v |-> r.v]]
        ELSE IF f.Type = 78
        THEN LET r == Atoi(fieldVal) IN [err |-> r.err, val |-> [t |-> "int", v |-> r.v]]
        ELSE [err |-> NoErr, val |-> [t |-> "string", v |-> fieldVal]]

\* rec[name] = val on a Record held as a set of <<name, value>> pairs
Put(rec, name, val) == {kv \in rec : kv[1] # name} \cup {<<name, val>>}

----------------------------------------------------------------------------
(* Reader.Read.                                                            *)

\* offset := int64(r.headerlen + r.recordlen*i): uint16 arithmetic in
\* dbf.go, int64 in part_001
ReadOffset(i) ==
    IF impl = "dbf" THEN U16(rdr.headerlen + rdr.recordlen * i)
    ELSE rdr.headerlen + rdr.recordlen * i

\* a flag test without the '*' branch: a deleted record is reported as an
\* unexpected flag value
FlagStepNoDeleted(p, i) ==
    LET r == ReadFull(p, 1)
    IN  IF r.err # NoErr THEN [ret |-> TRUE, err |-> r.err, io |-> r.err, pos |-> r.pos]
        ELSE IF r.bytes[1] # 32
             THEN [ret |-> TRUE, err |-> ErrFlag(i, r.bytes[1]), io |-> NoErr, pos |-> r.pos]
        ELSE [ret |-> FALSE, err |-> NoErr, io |-> NoErr, pos |-> r.pos]

\* the deletion flag: binary.Read of one byte and the if/else-if chain
FlagStep(p, i) ==
    LET r == ReadFull(p, 1)
    IN  IF r.err # NoErr THEN [ret |-> TRUE, err |-> r.err, io |-> r.err, pos |-> r.pos]
        ELSE IF r.bytes[1] = 42
             THEN [ret |-> TRUE, err |-> ErrDeleted(i), io |-> NoErr, pos |-> r.pos]
        ELSE IF r.bytes[1] # 32
             THEN [ret |-> TRUE, err |-> ErrFlag(i, r.bytes[1]), io |-> NoErr, pos |-> r.pos]
        ELSE [ret |-> FALSE, err |-> NoErr, io |-> NoErr, pos |-> r.pos]

\* one iteration of the loop over r.fields
FieldStep(p, f, rec) ==
    LET r == ReadFull(p, f.Len)
        d == DecodeValue(f, r.bytes)
    IN  IF r.err # NoErr THEN [err |-> r.err, io |-> r.err, pos |-> r.pos, rec |-> rec]
        ELSE IF d.err # NoErr THEN [err |-> d.err, io |-> NoErr, pos |-> r.pos, rec |-> rec]
        ELSE [err |-> NoErr, io |-> NoErr, pos |-> r.pos,
              rec |-> Put(rec, FieldNameOf(f), d.val)]

\* a Lock that never waits
CanLockNoMutex == TRUE

\* r.Lock() returns only when the mutex is free
CanLock == mutex = 0

IdleRead ==
    [pc |-> "idle", idx |-> 0, at |-> 0, off |-> 0, start |-> 0, n |-> 0, k |-> 0,
     rec |-> {}, nilrec |-> TRUE, err |-> NoErr, io |-> NoErr]

\* the indexes Read is called with: uint16 in dbf.go, int in part_001;
\* concurrent callers ask for the first two records
Indices ==
    IF nprocs > 1 THEN {0, 1}
    ELSE IF impl = "dbf" THEN 0..MaxIndex ELSE -1..MaxIndex

\* return rec, err with the deferred r.Unlock(); io is the failure, if any,
\* of the read just made
ReadReturn(p, nilrec, rec, e, io) ==
    /\ rd' = [rd EXCEPT ![p].pc = "done", ![p].nilrec = nilrec, ![p].rec = rec,
                        ![p].err = e,
                        ![p].io = IF rd[p].io = NoErr THEN io ELSE rd[p].io,
                        ![p].n = rd[p].n + (pos' - pos)]
    /\ mutex' = 0

\* a goroutine calls r.Read(i) and arrives at r.Lock()
ReadCall(p, i) ==
    /\ npc = "done"
    /\ ~rdr.isNil
    /\ impl # "p0"
    /\ rd[p].pc \in {"idle", "done"}
    /\ rd' = [rd EXCEPT ![p] = [IdleRead EXCEPT !.pc = "lock", !.idx = i]]
    /\ UNCHANGED <<impl, src, pos, nprocs, npc, h, offset, nfields, nzeros, rdr, nerr,
                   nio, eohOff, mark, recur, pos0, mutex, names>>

\* r.Lock() returns; at remembers where the cursor was
ReadLock(p) ==
    /\ rd[p].pc = "lock"
    /\ CanLock
    /\ mutex' = p
    /\ rd' = [rd EXCEPT ![p].pc = "locked", ![p].at = pos]
    /\ UNCHANGED <<impl, src, pos, nprocs, npc, h, offset, nfields, nzeros, rdr, nerr,
                   nio, eohOff, mark, recur, pos0, names>>

\* the offset and r.r.Seek(offset, 0), whose error is dropped
ReadSeek(p) ==
    /\ rd[p].pc = "locked"
    /\ LET off == ReadOffset(rd[p].idx)
       IN  /\ pos' = SeekPos(pos, off)
           /\ rd' = [rd EXCEPT ![p].pc = "flag", ![p].off = off,
                               ![p].start = SeekPos(pos, off), ![p].io = SeekErr(off)]
    /\ UNCHANGED <<impl, src, nprocs, npc, h, offset, nfields, nzeros, rdr, nerr,
                   nio, eohOff, mark, recur, pos0, mutex, names>>

\* the deletion flag
ReadFlag(p) ==
    /\ rd[p].pc = "flag"
    /\ LET s == FlagStep(pos, rd[p].idx)
       IN  /\ pos' = s.pos
           /\ IF s.ret
              THEN ReadReturn(p, TRUE, {}, s.err, s.io)
              ELSE /\ rd' = [rd EXCEPT ![p].pc = "fields", ![p].k = 1,
                                       ![p].n = rd[p].n + (s.pos - pos)]
                   /\ UNCHANGED mutex
    /\ UNCHANGED <<impl, src, nprocs, npc, h, offset, nfields, nzeros, rdr, nerr,
                   nio, eohOff, mark, recur, pos0, names>>

\* one field of the record, or the final return rec, nil
ReadField(p) ==
    /\ rd[p].pc = "fields"
    /\ IF rd[p].k > Len(rdr.fields)
       THEN /\ pos' = pos
            /\ ReadReturn(p, FALSE, rd[p].rec, NoErr, NoErr)
       ELSE LET s == FieldStep(pos, rdr.fields[rd[p].k], rd[p].rec)
            IN  /\ pos' = s.pos
                /\ IF s.err # NoErr
                   THEN ReadReturn(p, TRUE, {}, s.err, s.io)
                   ELSE /\ rd' = [rd EXCEPT ![p].k = rd[p].k + 1, ![p].rec = s.rec,
                                            ![p].n = rd[p].n + (s.pos - pos)]
                        /\ UNCHANGED mutex
    /\ UNCHANGED <<impl, src, nprocs, npc, h, offset, nfields, nzeros, rdr, nerr,
                   nio, eohOff, mark, recur, pos0, names>>

(* Read run alone from cursor p: the same steps, in sequence.              *)

RECURSIVE ReadFieldsAlone(_, _, _)
ReadFieldsAlone(p, k, rec) ==
    IF k > Len(rdr.fields) THEN [nilrec |-> FALSE, rec |-> rec, err |-> NoErr]
    ELSE LET s == FieldStep(p, rdr.fields[k], rec)
         IN  IF s.err # NoErr THEN [nilrec |-> TRUE, rec |-> {}, err |-> s.err]
             ELSE ReadFieldsAlone(s.pos, k + 1, s.rec)

ReadAlone(p, i) ==
    LET s == FlagStep(SeekPos(p, ReadOffset(i)), i)
    IN  IF s.ret THEN [nilrec |-> TRUE, rec |-> {}, err |-> s.err]
        ELSE ReadFieldsAlone(s.pos, 1, {})

----------------------------------------------------------------------------
(* The byte sources explored: files laid out as the header and Field       *)
(* structs are, with every header field free to disagree with the rest.    *)

B16(n) == <<n % 256, (n \div 256) % 256>>

B32(n) == <<n % 256, (n \div 256) % 256, (n \div 65536) % 256, (n \div 16777216) % 256>>

\* the 32 header bytes: version, date, Nrec, Headerlen, Recordlen, reserved
HeaderBytes(ver, nrec, hl, rl) ==
    <<ver, 95, 7, 26>> \o B32(nrec) \o B16(hl) \o B16(rl) \o Zeros(20)

\* the 32 bytes of one field descriptor
DescBytes(d) ==
    d.name \o Zeros(11 - Len(d.name)) \o <<d.type>> \o B32(0) \o <<d.len, 0>> \o Zeros(14)

RECURSIVE TableBytes(_)
TableBytes(ds) == IF ds = <<>> THEN <<>> ELSE DescBytes(Head(ds)) \o TableBytes(Tail(ds))

DescA == [name |-> <<65>>, type |-> 78, len |-> 1]

\* a name with bytes after its first NUL
DescAB == [name |-> <<65, 0, 66>>, type |-> 70, len |-> 2]

\* a name with a byte that is not UTF-8
DescFF == [name |-> <<255, 66>>, type |-> 67, len |-> 2]

\* a name that fills the buffer, and a field of no bytes
DescFull == [name |-> <<65, 66, 67, 68, 69, 70, 71, 72, 73, 74, 75>>, type |-> 67, len |-> 0]

\* a type tag validate rejects
DescBad == [name |-> <<68>>, type |-> 68, len |-> 1]

DescChoices == {DescA, DescAB, DescFF, DescFull, DescBad}

RECURSIVE DescListsOf(_)
DescListsOf(n) ==
    IF n = 0 THEN {<<>>}
    ELSE LET shorter == DescListsOf(n - 1)
         IN  shorter \cup {Append(ds, d) : ds \in {x \in shorter : Len(x) = n - 1},
                                           d \in DescChoices}

DescLists == DescListsOf(MaxDescs)

\* declared header lengths: the wrapping ones, 33 + 32k, and off that form
HeaderLens == {0, 32, 33, 34, 65, 66, 97, 65506, 65535}

\* the texts a field of a generated record holds
FieldTexts(d) ==
    IF d.len = 0 THEN {<<>>}
    ELSE IF d.type = 78 /\ d.len = 1 THEN {<<49>>, <<32>>, <<97>>}
    ELSE IF d.type = 70 /\ d.len = 2
         THEN {<<49, 46>>, <<46, 49>>, <<32, 32>>, <<45, 46>>}
    ELSE IF d.type = 67 /\ d.len = 2 THEN {<<97, 32>>, <<32, 32>>}
    ELSE {[i \in 1..d.len |-> 32]}

\* a text that decodes
GoodText(d) ==
    IF d.len = 0 THEN <<>>
    ELSE IF d.type = 78 THEN [i \in 1..d.len |-> 49]
    ELSE IF d.type = 70 THEN <<49>> \o [i \in 1..(d.len - 1) |-> 46]
    ELSE [i \in 1..d.len |-> 97]

RECURSIVE GoodFields(_)
GoodFields(ds) == IF ds = <<>> THEN <<>> ELSE GoodText(Head(ds)) \o GoodFields(Tail(ds))

RECURSIVE FieldsTexts(_)
FieldsTexts(ds) ==
    IF ds = <<>> THEN {<<>>}
    ELSE {t \o r : t \in FieldTexts(Head(ds)), r \in FieldsTexts(Tail(ds))}

\* first records: live with every text, deleted, and a bad flag
FirstRecords(ds) ==
    {<<32>> \o b : b \in FieldsTexts(ds)} \cup {<<42>> \o GoodFields(ds), <<88>> \o GoodFields(ds)}

\* what follows the first record: nothing, a live record, a deleted one, or
\* a live record cut short by one byte
NextRecords(ds) ==
    LET live == <<32>> \o GoodFields(ds)
    IN  {<<>>, live, <<42>> \o GoodFields(ds), SubSeq(live, 1, Len(live) - 1)}

RECURSIVE SumLen(_)
SumLen(ds) == IF ds = <<>> THEN 0 ELSE Head(ds).len + SumLen(Tail(ds))

\* files for NewReader: any version, declared length, table and terminator
HeaderFiles ==
    UNION {{HeaderBytes(ver, 3, hl, 1 + SumLen(ds)) \o TableBytes(ds) \o tail :
              ver \in {3, 4}, hl \in HeaderLens,
              tail \in {<<>>, <<0>>, <<13, 32>> \o GoodFields(ds) \o <<42>>}} :
           ds \in DescLists}

Schemas == {<<>>, <<DescAB>>, <<DescA, DescAB>>, <<DescFF, DescA>>}

\* declared record lengths: the packed one, and one that wraps at index 2
RecordLens(ds) == {1 + SumLen(ds), 32768}

\* files for Read: a well-formed header and table, then the records
RecordFiles ==
    UNION {{HeaderBytes(3, 3, 33 + 32 * Len(ds), rl) \o TableBytes(ds) \o <<13>> \o r1 \o r2 :
              rl \in RecordLens(ds), r1 \in FirstRecords(ds), r2 \in NextRecords(ds)} :
           ds \in Schemas}

\* files for part_000's NewReader
DraftFiles ==
    {HeaderBytes(3, 3, hl, 2) \o TableBytes(<<DescA>>) \o <<13, 32, 49>> : hl \in {0, 65, 66, 65506}}
        \cup {HeaderBytes(4, 3, 65, 2), HeaderBytes(3, 3, 33, 2)}

\* files for concurrent Reads
ConcFiles ==
    LET ds == <<DescA, DescAB>>
    IN  {HeaderBytes(3, 3, 33 + 32 * Len(ds), 1 + SumLen(ds)) \o TableBytes(ds) \o <<13>>
            \o r1 \o r2 :
            r1 \in {<<32, 49, 49, 46>>, <<32, 49, 45, 46>>},
            r2 \in {<<42, 49, 49, 46>>, <<32, 97, 49, 46>>}}

----------------------------------------------------------------------------
(* Specifications.                                                         *)

InitCommon ==
    /\ pos \in {0, 5}
    /\ npc = "call"
    /\ h = ZeroHeader
    /\ offset = 0
    /\ nfields = <<>>
    /\ nzeros = 0
    /\ rdr = NilReader
    /\ nerr = NoErr
    /\ nio = NoErr
    /\ eohOff = -1
    /\ mark = NoMark
    /\ recur = FALSE
    /\ pos0 = 0
    /\ mutex = 0
    /\ rd = [p \in 1..nprocs |-> IdleRead]
    /\ names = NoNames

\* one caller; every generated file
Init ==
    /\ \/ impl \in {"dbf", "p1"} /\ src \in HeaderFiles \cup RecordFiles
       \/ impl = "p0" /\ src \in DraftFiles
    /\ nprocs = 1
    /\ InitCommon

\* NumProcs goroutines sharing one Reader
InitConc ==
    /\ impl \in {"dbf", "p1"}
    /\ src \in ConcFiles
    /\ nprocs = NumProcs
    /\ InitCommon

Next ==
    \/ NewReaderHeader
    \/ NewReaderField
    \/ NewReaderEoh
    \/ FieldNames
    \/ \E p \in 1..nprocs : \E i \in Indices : ReadCall(p, i)
    \/ \E p \in 1..nprocs : ReadLock(p)
    \/ \E p \in 1..nprocs : ReadSeek(p)
    \/ \E p \in 1..nprocs : ReadFlag(p)
    \/ \E p \in 1..nprocs : ReadField(p)

Spec == Init /\ [][Next]_vars

SpecConc == InitConc /\ [][Next]_vars

----------------------------------------------------------------------------
(* Properties.                                                             *)

Callers == 1..nprocs

\* NewReader of dbf.go or part_001 has returned
Returned == impl \in {"dbf", "p1"} /\ npc = "done"

\* ... and returned a Reader
Constructed == Returned /\ ~rdr.isNil

\* C1: NewReader fails with a format-version error whenever the version
\* tag is not 0x03: if the 32-byte header can be read and byte 0 is not
\* 0x03, NewReader returns a non-nil error and no Reader.
C1_VersionMismatchFails ==
    (Returned /\ Len(src) >= 32 /\ src[1] # 3) => (nerr # NoErr /\ rdr.isNil)

\* C2: Read(i), for i in [0, recordCount), seeks to and starts reading at
\* the absolute offset headerLength + recordLength * i, computed exactly.
C2_SeekOffsetExact ==
    \A p \in Callers :
        (rd[p].pc \in {"flag", "fields", "done"} /\ rd[p].idx >= 0 /\ rd[p].idx < rdr.Length)
            => /\ rd[p].off = rdr.headerlen + rdr.recordlen * rd[p].idx
               /\ rd[p].start = rdr.headerlen + rdr.recordlen * rd[p].idx

\* the goroutines between r.Lock() and the deferred r.Unlock()
InRead == {p \in Callers : rd[p].pc \in {"locked", "flag", "fields"}}

\* C3: concurrent Read calls on one Reader are serialized by its lock: at
\* most one call is between Lock and Unlock and it holds the mutex; from its
\* Seek to its last read the cursor is where that call left it (no other
\* call's Seek or read came between); and every call returns what Read run
\* alone returns from the cursor it found when it got the lock.
C3_ReadsSerialized ==
    /\ Cardinality(InRead) <= 1
    /\ \A p \in InRead : mutex = p
    /\ \A p \in Callers :
          rd[p].pc \in {"flag", "fields"} => pos = rd[p].start + rd[p].n
    /\ \A p \in Callers :
          rd[p].pc = "done" =>
              [nilrec |-> rd[p].nilrec, rec |-> rd[p].rec, err |-> rd[p].err]
                  = ReadAlone(rd[p].at, rd[p].idx)

\* two calls overlap: one is reading fields while another, for a different
\* record, waits in Lock
C3_Witness ==
    \E p, q \in Callers :
        /\ p # q
        /\ rd[p].pc = "fields"
        /\ rd[q].pc = "lock"
        /\ rd[q].idx # rd[p].idx

\* C4: the deletion-flag byte Read finds at the offset it read from has three
\* outcomes: ' ' goes on to field decoding; '*' returns the deleted-record
\* error carrying the index, which is no format error, with no record and
\* no field byte read; any other byte returns a format error and no record.
C4_FlagOutcomes ==
    \A p \in Callers :
        (rd[p].pc \in {"fields", "done"} /\ rd[p].start < Len(src)) =>
            LET b == src[rd[p].start + 1]
            IN  /\ b = 32 => rd[p].k >= 1
                /\ b = 42 => /\ rd[p].pc = "done"
                             /\ rd[p].err = ErrDeleted(rd[p].idx)
                             /\ ~IsFormatErr(rd[p].err)
                             /\ rd[p].nilrec /\ rd[p].rec = {}
                             /\ rd[p].k = 0 /\ rd[p].n = 1
                /\ b \notin {32, 42} => /\ rd[p].pc = "done"
                                        /\ IsFormatErr(rd[p].err)
                                        /\ rd[p].err = ErrFlag(rd[p].idx, b)
                                        /\ rd[p].nilrec /\ rd[p].rec = {}
                                        /\ rd[p].k = 0

\* a Read of a deleted record at a nonzero index has returned
C4_Witness ==
    \E p \in Callers :
        /\ rd[p].pc = "done"
        /\ rd[p].idx = 1
        /\ rd[p].start < Len(src)
        /\ src[rd[p].start + 1] = 42

\* C5: every I/O failure of the byte source during NewReader or Read is
\* returned to the caller as that I/O error: a call in which a Seek or a
\* read failed returns that error, and a Read whose Seek failed reads nothing.
C5_IOErrorsPropagate ==
    /\ (Returned /\ nio # NoErr) => nerr = nio
    /\ \A p \in Callers :
          (rd[p].pc = "done" /\ rd[p].io # NoErr) => rd[p].err = rd[p].io
    /\ \A p \in Callers :
          (rd[p].pc \in {"flag", "fields", "done"} /\ rd[p].io = ErrSeek) => rd[p].n = 0

\* the bytes of a name buffer that precede its first NUL
BeforeNul(buf) ==
    LET nuls == {i \in 1..Len(buf) : buf[i] = 0}
    IN  IF nuls = {} THEN buf
        ELSE SubSeq(buf, 1, (CHOOSE i \in nuls : \A j \in nuls : i <= j) - 1)

\* C6: FieldName(i) is exactly the bytes of field i's name buffer that
\* precede the first NUL, for every buffer content, and FieldNames lists
\* these names in declaration order.
C6_FieldNameStopsAtNul ==
    (Constructed /\ names.set) =>
        /\ Len(names.v) = Len(rdr.fields)
        /\ \A i \in 1..Len(rdr.fields) :
              /\ names.v[i] = BeforeNul(rdr.fields[i].Name)
              /\ FieldName(i) = BeforeNul(rdr.fields[i].Name)

\* integer division that truncates toward zero
TruncDiv(a, b) == IF a >= 0 THEN a \div b ELSE -((-a) \div b)

\* C7 as stated: whenever NewReader succeeds with declared headerLength H,
\* the Reader has (H - 0x20 - 1) / 32 fields and the byte compared with 0x0D
\* is the one at offset H - 1, for every H.
C7_FieldCountAnyHeaderLen ==
    Constructed =>
        /\ Len(rdr.fields) = TruncDiv(rdr.headerlen - 32 - 1, 32)
        /\ eohOff = rdr.headerlen - 1

\* C7 as amended: whenever NewReader (of any version) succeeds, H is in 1..65505, the Reader
\* has ceil((H - 33) / 32) fields (none when H < 33) and the byte compared
\* with 0x0D is the one at offset 32 + 32 * fields; the count is
\* (H - 33) / 32 and the offset H - 1 exactly when H is of the form 33 + 32k.
C7_FieldCountCeil ==
    (npc = "done" /\ ~rdr.isNil) =>
        LET H == h.Headerlen
            n == Len(rdr.fields)
        IN  /\ H \in 1..65505
            /\ n = IF H >= 33 THEN (H - 33 + 31) \div 32 ELSE 0
            /\ eohOff = 32 + 32 * n
            /\ (H >= 33 /\ (H - 33) % 32 = 0) <=> (n = TruncDiv(H - 33, 32) /\ eohOff = H - 1)

\* NewReader succeeded on a header length that is not of the form 33 + 32k
C7_Witness ==
    Constructed /\ rdr.headerlen = 34 /\ Len(rdr.fields) = 1 /\ eohOff = 64

RECURSIVE WidthBefore(_)
\* bytes of a record before its field k: the flag and the fields ahead of it
WidthBefore(k) == IF k <= 1 THEN 1 ELSE WidthBefore(k - 1) + rdr.fields[k - 1].Len

\* the stored bytes of field k of the record that starts at offset s
RawField(s, k) == SubSeq(src, s + WidthBefore(k) + 1, s + WidthBefore(k + 1))

\* field k of the record at s is N or F, lies inside the file, and its
\* trimmed text is no number
BadNumber(s, k) ==
    /\ rdr.fields[k].Type \in {78, 70}
    /\ s + WidthBefore(k + 1) <= Len(src)
    /\ IF rdr.fields[k].Type = 78
       THEN Atoi(TrimSpace(RawField(s, k))).err # NoErr
       ELSE ParseFloat(TrimSpace(RawField(s, k))).err # NoErr

\* C8: if an N or F field of a live record holds text that is no number
\* (all-blank included), Read stops at the first such field in schema order
\* and returns that field's parse error with no record.
C8_FailsAtFirstBadField ==
    \A p \in Callers :
        LET s   == rd[p].start
            bad == {k \in 1..Len(rdr.fields) : BadNumber(s, k)}
        IN  (rd[p].pc = "done" /\ s < Len(src) /\ src[s + 1] = 32 /\ bad # {}) =>
                LET k0  == CHOOSE k \in bad : \A j \in bad : k <= j
                    txt == TrimSpace(RawField(s, k0))
                IN  /\ rd[p].err = IF rdr.fields[k0].Type = 78
                                   THEN ErrAtoi(txt) ELSE ErrParseFloat(txt)
                    /\ rd[p].nilrec /\ rd[p].rec = {}
                    /\ rd[p].k = k0
                    /\ rd[p].n = WidthBefore(k0 + 1)

\* a Read returned the parse error of an all-blank second field, after it
\* had decoded the first
C8_Witness ==
    \E p \in Callers :
        /\ rd[p].pc = "done"
        /\ rd[p].k = 2
        /\ rd[p].err \in {ErrAtoi(<<>>), ErrParseFloat(<<>>)}
        /\ rd[p].start < Len(src)
        /\ src[rd[p].start + 1] = 32

\* C9: each Read is independent of the earlier ones: whatever calls came
\* before, Read(i) returns what it returns as the first call after NewReader.
C9_ReadIndependent ==
    \A p \in Callers :
        rd[p].pc = "done" =>
            [nilrec |-> rd[p].nilrec, rec |-> rd[p].rec, err |-> rd[p].err]
                = ReadAlone(pos0, rd[p].idx)

\* C10: NewReader terminates on every finite byte source for every declared
\* headerLength: its descriptor loop never comes back to a state (offset
\* counter, cursor at the end of the source) in which it already evaluated
\* its test; a loop that does runs the same iterations again, for ever.
C10_LoopNeverRecurs == ~recur

====
